---- MODULE Spec2Model ----
(***************************************************************************)
(* State-machine model of src/index.js (cleverbot-free): the module-level  *)
(* configuration and session variables, the async call chain               *)
(* interact -> callCleverbotAPI -> updateCookiesIfNeeded with its await    *)
(* points, config and newSession.                                          *)
(*                                                                         *)
(* Representation.  JS strings the code takes apart (substring, split,     *)
(* encodeURIComponent) are sequences of one-character strings ("texts").   *)
(* "k=v" lists (form payload, URL query, Cookie header) are sequences of   *)
(* [name, value] fields.  An optional JS value is <<>>                     *)
(* (undefined) or <<v>>.  A JS number read from a config object is a       *)
(* fraction [n |-> numerator, d |-> denominator]; d = 0 is NaN.  An array  *)
(* a caller passes to interact is a cell of arrays, and a call holds the   *)
(* cell's index: two calls may hold the same array.                        *)
(*                                                                         *)
(* Scheduling.  interact may be called while earlier calls are in          *)
(* progress; every call has a frame, indexed by Calls.  A call             *)
(* yields at its awaits: the cookie GET, the promise of                    *)
(* updateCookiesIfNeeded (resolved or rejected), the exchange POST, the    *)
(* promise of callCleverbotAPI (resolved or rejected) and the sleep.  The  *)
(* other calls, config, newSession and the clock may step at every yield.  *)
(* sleep (./scripts/sleep.js) is a timer of the host: the model records    *)
(* the duration asked for and lets the timer fire at any later step.       *)
(* A call that has settled has no locals left: its frame keeps the result  *)
(* and the observations, and the locals are back at their initial values.  *)
(*                                                                         *)
(*                                                                         *)
(* Bounds.  A behaviour makes at most MaxCalls calls of interact, each in  *)
(* a frame of its own, and at most MaxConfigs calls of config; at most     *)
(* MaxRequests network calls are issued, and the clock stops at MaxNow.    *)
(***************************************************************************)
EXTENDS Integers, Sequences, FiniteSets, TLC

VARIABLES
    \* configuration, src/index.js:9-13
    debug, selectedLanguage, maxRetryAttempts, retryBaseCooldown, cookieExpirationTime,
    \* session, src/index.js:15-21
    cookies, lastCookieUpdate, cbsId, xai, ns, lastResponse,
    \* counters, src/index.js:22-23
    successfulRequestsCount, failedRequestsCount,
    \* Date.now()
    now,
    \* the arrays callers have passed as history
    arrays,
    \* the interact calls made, each a function of the call: position,
    \* locals and arguments (context is the index of the array passed), the
    \* promise interact returned, the HTTP request in flight, and the
    \* settlement of the promise the call awaits
    pc, i, incrementalDelay, stimulus, context, language, waitTime, settled, request, inner,
    \* observation of each call: the history array as the caller passed it,
    \* the number of callCleverbotAPI() and of sleep() calls, the outcome of
    \* the current attempt's latest network call, whether some attempt was
    \* answered 403, the retryBaseCooldown and incrementalDelay that went into
    \* the latest waitTime, the number of buildMainPayload() calls of the
    \* call, and the number of reverse() calls on its array since it started
    supplied, attempts, sleeps, lastOutcome, banSeen, lastWait, builds, reversals,
    \* the number of config() calls made
    configCalls

configVars == <<debug, selectedLanguage, maxRetryAttempts, retryBaseCooldown, cookieExpirationTime>>
sessionVars == <<cookies, lastCookieUpdate, cbsId, xai, ns, lastResponse>>
counterVars == <<successfulRequestsCount, failedRequestsCount>>
frameVars == <<pc, i, incrementalDelay, stimulus, context, language, waitTime, settled, request,
               inner>>
obsVars == <<supplied, attempts, sleeps, lastOutcome, banSeen, lastWait, builds, reversals>>
vars == <<configVars, sessionVars, counterVars, now, arrays, frameVars, obsVars, configCalls>>

-----------------------------------------------------------------------------
(* Bounds of the model *)

\* network calls (issued) after which no further request is issued
MaxRequests == 3
\* largest value of the clock
MaxNow == 2
\* interact() calls made in a behaviour
MaxCalls == 2
\* config() calls made in a behaviour
MaxConfigs == 1

-----------------------------------------------------------------------------
(* JS values *)

None == <<>>
Some(v) == <<v>>

\* a JS number as a fraction; d = 0 is NaN
Num(n) == [n |-> n, d |-> 1]
NaN == [n |-> 0, d |-> 0]
IsNaN(x) == x.d = 0
\* x < y and x <= y on JS numbers: false as soon as one side is NaN
NumLess(x, y) == ~IsNaN(x) /\ ~IsNaN(y) /\ x.n * y.d < y.n * x.d
NumLessEq(x, y) == ~IsNaN(x) /\ ~IsNaN(y) /\ x.n * y.d <= y.n * x.d
\* x + k for an integer k
NumPlus(x, k) == IF IsNaN(x) THEN NaN ELSE [n |-> x.n + k * x.d, d |-> x.d]
IsInteger(x) == ~IsNaN(x) /\ x.n % x.d = 0

\* a value found under a key of a config object; type is the JS typeof
JsBoolean(v) == [type |-> "boolean", b |-> v, t |-> <<>>, num |-> Num(0)]
JsString(v) == [type |-> "string", b |-> FALSE, t |-> v, num |-> Num(0)]
JsNumber(v) == [type |-> "number", b |-> FALSE, t |-> <<>>, num |-> v]
\* the key is not in the object
Absent == [type |-> "absent", b |-> FALSE, t |-> <<>>, num |-> Num(0)]

RECURSIVE Reverse(_)
\* Array.prototype.reverse
Reverse(s) == IF s = <<>> THEN <<>> ELSE Reverse(Tail(s)) \o <<Head(s)>>

\* String.prototype.substring(0, k)
Substring0(t, k) == SubSeq(t, 1, IF Len(t) < k THEN Len(t) ELSE k)

\* the characters encodeURIComponent leaves as they are: A-Z a-z 0-9 and
\* - _ . ! ~ * ' ( )
Unreserved ==
    {"A", "B", "C", "D", "E", "F", "G", "H", "I", "J", "K", "L", "M",
     "N", "O", "P", "Q", "R", "S", "T", "U", "V", "W", "X", "Y", "Z",
     "a", "b", "c", "d", "e", "f", "g", "h", "i", "j", "k", "l", "m",
     "n", "o", "p", "q", "r", "s", "t", "u", "v", "w", "x", "y", "z",
     "0", "1", "2", "3", "4", "5", "6", "7", "8", "9",
     "-", "_", ".", "!", "~", "*", "'", "(", ")"}

\* the UTF-8 bytes of a character that is not unreserved, each as its two
\* hex digits: the ASCII characters and some characters outside ASCII, as
\* far as a string of the module can hold them
Utf8Bytes(c) ==
    CASE c = "\t" -> <<<<"0", "9">>>>
      [] c = "\n" -> <<<<"0", "A">>>>
      [] c = "\r" -> <<<<"0", "D">>>>
      [] c = " " -> <<<<"2", "0">>>>
      [] c = "\"" -> <<<<"2", "2">>>>
      [] c = "#" -> <<<<"2", "3">>>>
      [] c = "$" -> <<<<"2", "4">>>>
      [] c = "%" -> <<<<"2", "5">>>>
      [] c = "&" -> <<<<"2", "6">>>>
      [] c = "+" -> <<<<"2", "B">>>>
      [] c = "," -> <<<<"2", "C">>>>
      [] c = "/" -> <<<<"2", "F">>>>
      [] c = ":" -> <<<<"3", "A">>>>
      [] c = ";" -> <<<<"3", "B">>>>
      [] c = "<" -> <<<<"3", "C">>>>
      [] c = "=" -> <<<<"3", "D">>>>
      [] c = ">" -> <<<<"3", "E">>>>
      [] c = "?" -> <<<<"3", "F">>>>
      [] c = "@" -> <<<<"4", "0">>>>
      [] c = "[" -> <<<<"5", "B">>>>
      [] c = "\\" -> <<<<"5", "C">>>>
      [] c = "]" -> <<<<"5", "D">>>>
      [] c = "^" -> <<<<"5", "E">>>>
      [] c = "{" -> <<<<"7", "B">>>>
      [] c = "|" -> <<<<"7", "C">>>>
      [] c = "}" -> <<<<"7", "D">>>>
      [] c = "é" -> <<<<"C", "3">>, <<"A", "9">>>>
      [] c = "ó" -> <<<<"C", "3">>, <<"B", "3">>>>
      [] c = "ü" -> <<<<"C", "3">>, <<"B", "C">>>>

RECURSIVE Escapes(_)
\* %XX for every byte
Escapes(bytes) ==
    IF bytes = <<>> THEN <<>> ELSE <<"%">> \o Head(bytes) \o Escapes(Tail(bytes))

\* encodeURIComponent on one character: unreserved characters stay, every
\* other becomes the escapes of its UTF-8 bytes
EncodeChar(c) == IF c \in Unreserved THEN <<c>> ELSE Escapes(Utf8Bytes(c))

RECURSIVE encodeURIComponent(_)
encodeURIComponent(t) ==
    IF t = <<>> THEN <<>> ELSE EncodeChar(Head(t)) \o encodeURIComponent(Tail(t))

RECURSIVE NumberToText(_)
\* the decimal digits of an integer n >= 0, as a template literal prints it
NumberToText(n) ==
    IF n < 10 THEN <<ToString(n)>> ELSE NumberToText(n \div 10) \o <<ToString(n % 10)>>

Field(name, value) == [name |-> name, value |-> value]

-----------------------------------------------------------------------------
(* Inputs: the arguments of the public operations and the answers of the  *)
(* remote service, drawn from small sets                                   *)

\* the frames of the interact calls made
Calls == 1..MaxCalls
\* the cells for the arrays the calls hold
ArrayIds == Calls

En == <<"e", "n">>
Pl == <<"p", "l">>
\* ./scripts/languages.js is not part of src/: a set that holds the default
SUPPORTED_LANGUAGES == {En, Pl}

Stimuli == {<<"u", " ", "?">>}
MsgA == <<"a">>
MsgB == <<"b", "&">>
Histories == {<<>>, <<MsgA, MsgB>>}
\* the third argument of interact: omitted, or a language code
LanguageArgs == {None}

\* config(c) is called with these objects (a key is absent, valid or
\* invalid) and with a value that is no object
ConfigObject(dbg, lang, mra, rbc, cet) ==
    [isObject |-> TRUE, debug |-> dbg, defaultLanguage |-> lang, maxRetryAttempts |-> mra,
     retryBaseCooldown |-> rbc, cookieExpirationTime |-> cet]
NotAnObject ==
    [isObject |-> FALSE, debug |-> Absent, defaultLanguage |-> Absent,
     maxRetryAttempts |-> Absent, retryBaseCooldown |-> Absent,
     cookieExpirationTime |-> Absent]
ConfigArgs ==
    {NotAnObject,
     ConfigObject(JsBoolean(TRUE), Absent, JsNumber(Num(-1)), Absent, Absent),
     ConfigObject(Absent, JsString(<<"x", "x">>), Absent, Absent, Absent),
     ConfigObject(Absent, Absent, JsNumber(NaN), Absent, Absent),
     ConfigObject(Absent, JsString(Pl), JsNumber(Num(2)), JsNumber(Num(1000)),
                  JsNumber(Num(1))),
     ConfigObject(Absent, Absent, Absent, JsNumber(Num(0)), JsString(<<"2">>))}

\* a cookie string is the sequence of its ';'-separated parts
Jar1 == << <<<<"X", "V", "=", "1">>, <<" ", "p">>>> >>
\* answers to the cookie GET: axios resolves (with or without a set-cookie
\* header) or rejects (with the response's status, or with no response)
GetResults ==
    {[ok |-> TRUE, hasResponse |-> TRUE, status |-> 200, setCookie |-> Some(Jar1)],
     [ok |-> TRUE, hasResponse |-> TRUE, status |-> 200, setCookie |-> None],
     [ok |-> FALSE, hasResponse |-> TRUE, status |-> 403, setCookie |-> None],
     [ok |-> FALSE, hasResponse |-> TRUE, status |-> 500, setCookie |-> None],
     [ok |-> FALSE, hasResponse |-> FALSE, status |-> 0, setCookie |-> None]}

Reply1 == <<"y", "o">>
Sid1 == <<"A", "B", "C", "D">>
Tok1 == <<"t">>
Reply2 == <<"o", " ", "k">>
Tok2 == <<"w">>
\* a response body is the sequence of its '\r'-separated segments; the
\* empty string is the single empty segment
EmptyBody == <<<<>>>>
Bodies ==
    {EmptyBody,
     <<Reply1, Sid1>>,
     <<Reply1, Sid1, Tok1, <<"e">>>>,
     <<Reply2, <<>>, Tok2>>}
\* answers to the exchange POST: axios resolves with data (a string, or a
\* value axios parsed from a JSON body: truthy like an object, or falsy
\* like 0 and null) or rejects
PostResults ==
    [ok : {TRUE}, hasResponse : {TRUE}, status : {200}, isString : {TRUE}, truthy : {TRUE},
     segs : Bodies \ {EmptyBody}]
    \cup
    {[ok |-> TRUE, hasResponse |-> TRUE, status |-> 200, isString |-> TRUE, truthy |-> FALSE,
      segs |-> EmptyBody],
     [ok |-> TRUE, hasResponse |-> TRUE, status |-> 200, isString |-> FALSE, truthy |-> TRUE,
      segs |-> <<>>],
     [ok |-> TRUE, hasResponse |-> TRUE, status |-> 200, isString |-> FALSE, truthy |-> FALSE,
      segs |-> <<>>],
     [ok |-> FALSE, hasResponse |-> TRUE, status |-> 403, isString |-> FALSE, truthy |-> FALSE,
      segs |-> <<>>],
     [ok |-> FALSE, hasResponse |-> FALSE, status |-> 0, isString |-> FALSE, truthy |-> FALSE,
      segs |-> <<>>]}

\* values of Math.floor(Math.random() * 2000) and Math.floor(Math.random() * 3000)
JitterSamples == {0, 1999}
IncrementSamples == {0, 2999}
-----------------------------------------------------------------------------
(* Payloads *)

Truthy(opt) == opt # None /\ opt[1] # <<>>

\* src/index.js:26-35
buildCookieHeader ==
    (IF cookies # None
        THEN <<Field("_cbsid", <<"-", "1">>), Field("jar", cookies[1][1][1])>>
        ELSE <<>>)
    \o (IF Truthy(xai) THEN <<Field("XAI", Substring0(xai[1], 3))>> ELSE <<>>)
    \o (IF Truthy(cbsId) THEN <<Field("CBSID", cbsId[1])>> ELSE <<>>)
    \o <<Field("note", <<"1">>)>>
    \o (IF Truthy(lastResponse)
        THEN <<Field("CBALT", <<"1", "~">> \o encodeURIComponent(lastResponse[1]))>>
        ELSE <<>>)

\* src/index.js:37-44 on the array as context.reverse() leaves it: the
\* fields of the payload in order.  The transmitted body is this payload
\* twice followed by md5 of its characters 7..32 (line 45), a function of
\* these fields.
buildMainPayload(stim, reversed, lang) ==
    <<Field("stimulus", encodeURIComponent(stim))>>
    \o [k \in 1..Len(reversed) |->
          Field("vText" \o ToString(k - 1), encodeURIComponent(reversed[k]))]
    \o (IF lang # <<>> THEN <<Field("cb_config_language", lang)>> ELSE <<>>)
    \o <<Field("cb_config_scripting", <<"n", "o">>), Field("islearning", <<"1">>),
         Field("icognoid", <<"w", "s", "f">>), Field("icognocheck", <<>>)>>

\* src/index.js:98: the query that continues a session, built after ns += 1
UrlParams(stim, count) ==
    IF Truthy(cbsId)
        THEN <<Field("out", encodeURIComponent(lastResponse[1])),
               Field("in", encodeURIComponent(stim)),
               Field("cbsid", cbsId[1]), Field("xai", xai[1]),
               Field("ns", NumberToText(count))>>
        ELSE <<>>

NoRequest == [method |-> "none", url |-> <<>>, body |-> <<>>, cookie |-> <<>>]
\* src/index.js:64-70
CookieRequest ==
    [method |-> "GET", url |-> <<>>, body |-> <<>>,
     cookie |-> <<Field("_cbsid", <<"-", "1">>), Field("note", <<"1">>)>>]
\* src/index.js:94-110
ExchangeRequest(stim, reversed, lang, count) ==
    [method |-> "POST", url |-> UrlParams(stim, count),
     body |-> buildMainPayload(stim, reversed, lang), cookie |-> buildCookieHeader]

-----------------------------------------------------------------------------
(* Promises *)

\* the promise interact returned
Pending == [how |-> "pending", value |-> None, error |-> "", attempt |-> 0, named |-> Num(0)]
\* resolved with a reply, or with undefined
Resolved(v) == [how |-> "resolved", value |-> v, error |-> "", attempt |-> 0, named |-> Num(0)]
\* src/index.js:145: rejected, the message naming attempt i + 1
Banned(attempt) ==
    [how |-> "rejected", value |-> None, error |-> "Banned", attempt |-> attempt, named |-> Num(0)]
\* src/index.js:156: rejected, the message naming maxRetryAttempts
ExhaustedRetries(n) ==
    [how |-> "rejected", value |-> None, error |-> "ExhaustedRetries", attempt |-> 0, named |-> n]

\* an error object as a catch clause sees it (err.response and its status);
\* new Error(message) has no response property
NewError == [hasResponse |-> FALSE, status |-> 0]

\* the promise a call awaits (of updateCookiesIfNeeded, of callCleverbotAPI):
\* not settled, resolved with a value, rejected with an error
NotSettled == [how |-> "pending", value |-> None, error |-> NewError]
Returned(v) == [how |-> "resolved", value |-> v, error |-> NewError]
Thrown(e) == [how |-> "rejected", value |-> None, error |-> e]

\* how a network call of a call in progress ended: during which attempt,
\* and with which body segments
NoOutcome == [kind |-> "none", attempt |-> 0, data |-> <<>>]
Outcome(kind, attempt, data) == [kind |-> kind, attempt |-> attempt, data |-> data]

\* the operands of the latest waitTime of a call
NoWait == [cooldown |-> Num(0), delay |-> 0]

\* f with the value at c replaced
Upd(f, c, v) == [f EXCEPT ![c] = v]

-----------------------------------------------------------------------------
Init ==
    /\ debug = FALSE
    /\ selectedLanguage = En
    /\ maxRetryAttempts = Num(3)
    /\ retryBaseCooldown = Num(3000)
    /\ cookieExpirationTime = Num(15768000)
    /\ cookies = None
    /\ lastCookieUpdate = 0
    /\ cbsId = None
    /\ xai = None
    /\ ns = 0
    /\ lastResponse = None
    /\ configCalls = 0
    /\ successfulRequestsCount = 0
    /\ failedRequestsCount = 0
    /\ now = 1
    /\ arrays = [a \in ArrayIds |-> <<>>]
    /\ pc = [c \in Calls |-> "idle"]
    /\ i = [c \in Calls |-> 0]
    /\ incrementalDelay = [c \in Calls |-> 0]
    /\ stimulus = [c \in Calls |-> <<>>]
    /\ context = [c \in Calls |-> c]
    /\ language = [c \in Calls |-> <<>>]
    /\ waitTime = [c \in Calls |-> Num(0)]
    /\ settled = [c \in Calls |-> Pending]
    /\ request = [c \in Calls |-> NoRequest]
    /\ inner = [c \in Calls |-> NotSettled]
    /\ supplied = [c \in Calls |-> <<>>]
    /\ attempts = [c \in Calls |-> 0]
    /\ sleeps = [c \in Calls |-> 0]
    /\ lastOutcome = [c \in Calls |-> NoOutcome]
    /\ banSeen = [c \in Calls |-> FALSE]
    /\ lastWait = [c \in Calls |-> NoWait]
    /\ builds = [c \in Calls |-> 0]
    /\ reversals = [c \in Calls |-> 0]

\* the requests in flight
InFlight == {c \in Calls : request[c].method # "none"}
\* the model issues no request once MaxRequests have been issued
MayRequest ==
    successfulRequestsCount + failedRequestsCount + Cardinality(InFlight) < MaxRequests

\* a slip in CookiesValid: a jar exactly cookieExpirationTime old still counts
CookiesValidAtExpiry ==
    cookies # None /\ NumLessEq(Num(now - lastCookieUpdate), cookieExpirationTime)

\* src/index.js:61: the jar is there and younger than cookieExpirationTime
CookiesValid ==
    cookies # None /\ NumLess(Num(now - lastCookieUpdate), cookieExpirationTime)

\* src/index.js:89-92 and 52-70: callCleverbotAPI up to its first await.
\* updateCookiesIfNeeded either returns at once, and the caller awaits its
\* resolved promise, or issues the cookie GET and awaits the answer.
CallCleverbotAPI(c, made) ==
    /\ attempts' = Upd(attempts, c, made + 1)
    /\ IF CookiesValid
          THEN /\ pc' = Upd(pc, c, "awaitCookies")
               /\ request' = Upd(request, c, NoRequest)
          ELSE /\ MayRequest
               /\ pc' = Upd(pc, c, "get")
               /\ request' = Upd(request, c, CookieRequest)

\* src/index.js:140: the loop test i < maxRetryAttempts with index j
LoopContinues(j) == NumLess(Num(j), maxRetryAttempts)

\* src/index.js:140-142 and 156: the loop test with index j after made
\* attempts, then either the next attempt or the final throw
Iterate(c, j, made) ==
    IF LoopContinues(j)
        THEN /\ CallCleverbotAPI(c, made)
             /\ settled' = Upd(settled, c, Pending)
        ELSE /\ pc' = Upd(pc, c, "done")
             /\ request' = Upd(request, c, NoRequest)
             /\ attempts' = Upd(attempts, c, made)
             /\ settled' = Upd(settled, c, ExhaustedRetries(maxRetryAttempts))

\* a slip in InteractCatch: the error caught is thrown on to the caller
InteractCatchRethrows(c, e, jitter) ==
    /\ pc' = Upd(pc, c, "done")
    /\ settled' = Upd(settled, c,
                      [how |-> "rejected", value |-> None, error |-> "RemoteCallFailed",
                       attempt |-> i[c] + 1, named |-> Num(0)])
    /\ UNCHANGED <<waitTime, sleeps, lastWait>>

\* a slip in InteractCatch: no sleep after the last attempt
InteractCatchLastWithoutSleep(c, e, jitter) ==
    IF ~NumLess(Num(i[c] + 1), maxRetryAttempts)
        THEN /\ pc' = Upd(pc, c, "done")
             /\ settled' = Upd(settled, c, ExhaustedRetries(maxRetryAttempts))
             /\ UNCHANGED <<waitTime, sleeps, lastWait>>
        ELSE /\ waitTime' = Upd(waitTime, c,
                                NumPlus(retryBaseCooldown, jitter + 1000 + incrementalDelay[c]))
             /\ lastWait' = Upd(lastWait, c, [cooldown |-> retryBaseCooldown,
                                              delay |-> incrementalDelay[c]])
             /\ sleeps' = Upd(sleeps, c, sleeps[c] + 1)
             /\ pc' = Upd(pc, c, "sleep")
             /\ settled' = Upd(settled, c, Pending)

\* src/index.js:143-153: the catch clause of interact
InteractCatch(c, e, jitter) ==
    IF e.hasResponse /\ e.status = 403
        THEN /\ pc' = Upd(pc, c, "done")
             /\ settled' = Upd(settled, c, Banned(i[c] + 1))
             /\ UNCHANGED <<waitTime, sleeps, lastWait>>
        ELSE /\ waitTime' = Upd(waitTime, c,
                                NumPlus(retryBaseCooldown, jitter + 1000 + incrementalDelay[c]))
             /\ lastWait' = Upd(lastWait, c, [cooldown |-> retryBaseCooldown,
                                              delay |-> incrementalDelay[c]])
             /\ sleeps' = Upd(sleeps, c, sleeps[c] + 1)
             /\ pc' = Upd(pc, c, "sleep")
             /\ settled' = Upd(settled, c, Pending)

\* the arrays a call can be passed: a new one with some contents, or the
\* one an earlier call d was passed
ArrayArgs ==
    {[same |-> 0, hist |-> h] : h \in Histories} \cup {[same |-> d, hist |-> <<>>] : d \in Calls}

\* the cell of the array arr for call c: its own for a new array
CellOf(c, arr) == IF arr.same = 0 THEN c ELSE context[arr.same]

\* src/index.js:137-142: interact(stimulus, context, language) up to its
\* first await, in frame c: the frame of the c-th call made.
Interact(c, stim, arr, lang) ==
    /\ pc[c] = "idle"
    /\ c > 1 => pc[c - 1] # "idle"
    /\ arr.same # 0 => pc[arr.same] # "idle"
    /\ i' = Upd(i, c, 0)
    /\ incrementalDelay' = Upd(incrementalDelay, c, 0)
    /\ stimulus' = Upd(stimulus, c, IF LoopContinues(0) THEN stim ELSE <<>>)
    /\ context' = Upd(context, c, CellOf(c, arr))
    /\ arrays' = IF arr.same = 0 THEN Upd(arrays, c, arr.hist) ELSE arrays
    /\ language' = Upd(language, c,
                        IF ~LoopContinues(0) THEN <<>>
                        ELSE IF lang = None THEN selectedLanguage ELSE lang[1])
    /\ waitTime' = Upd(waitTime, c, Num(0))
    /\ inner' = Upd(inner, c, NotSettled)
    /\ supplied' = Upd(supplied, c, IF arr.same = 0 THEN arr.hist ELSE arrays[CellOf(c, arr)])
    /\ sleeps' = Upd(sleeps, c, 0)
    /\ lastOutcome' = Upd(lastOutcome, c, NoOutcome)
    /\ banSeen' = Upd(banSeen, c, FALSE)
    /\ lastWait' = Upd(lastWait, c, NoWait)
    /\ builds' = Upd(builds, c, 0)
    /\ reversals' = Upd(reversals, c, 0)
    /\ Iterate(c, 0, 0)
    /\ UNCHANGED <<configVars, sessionVars, counterVars, now, configCalls>>

\* the reverse() calls seen by every call that holds the array of call c
Reversed(c) ==
    [d \in Calls |->
        IF pc[d] # "idle" /\ context[d] = context[c] THEN reversals[d] + 1 ELSE reversals[d]]

\* a slip in CookiesReady: the exchange counter is left as it is
CookiesReadyKeepsNs(c) ==
    /\ pc[c] = "awaitCookies"
    /\ MayRequest
    /\ arrays' = Upd(arrays, context[c], Reverse(arrays[context[c]]))
    /\ builds' = Upd(builds, c, builds[c] + 1)
    /\ reversals' = Reversed(c)
    /\ request' = Upd(request, c,
                      ExchangeRequest(stimulus[c], Reverse(arrays[context[c]]), language[c],
                                      ns + 1))
    /\ pc' = Upd(pc, c, "post")
    /\ UNCHANGED <<configVars, cookies, lastCookieUpdate, cbsId, xai, ns, lastResponse,
                   counterVars, now, configCalls, i, incrementalDelay, stimulus, context, language,
                   waitTime, settled, inner, supplied, attempts, sleeps, lastOutcome,
                   banSeen, lastWait>>

\* a slip in CookiesReady: the payload is built from a reversed copy and the
\* caller's array is left alone
CookiesReadyReversesCopy(c) ==
    /\ pc[c] = "awaitCookies"
    /\ MayRequest
    /\ builds' = Upd(builds, c, builds[c] + 1)
    /\ ns' = ns + 1
    /\ request' = Upd(request, c,
                      ExchangeRequest(stimulus[c], Reverse(arrays[context[c]]), language[c],
                                      ns + 1))
    /\ pc' = Upd(pc, c, "post")
    /\ reversals' = Reversed(c)
    /\ UNCHANGED <<configVars, cookies, lastCookieUpdate, cbsId, xai, lastResponse,
                   counterVars, now, configCalls, arrays, i, incrementalDelay, stimulus, context,
                   language, waitTime, settled, inner, supplied, attempts, sleeps,
                   lastOutcome, banSeen, lastWait>>

\* src/index.js:92-110: the await of updateCookiesIfNeeded completes
\* normally; the payload is built (reversing the caller's array in place),
\* ns is incremented and the exchange POST is issued
CookiesReady(c) ==
    /\ pc[c] = "awaitCookies"
    /\ MayRequest
    /\ arrays' = Upd(arrays, context[c], Reverse(arrays[context[c]]))
    /\ builds' = Upd(builds, c, builds[c] + 1)
    /\ reversals' = Reversed(c)
    /\ ns' = ns + 1
    /\ request' = Upd(request, c,
                      ExchangeRequest(stimulus[c], Reverse(arrays[context[c]]), language[c],
                                      ns + 1))
    /\ pc' = Upd(pc, c, "post")
    /\ UNCHANGED <<configVars, cookies, lastCookieUpdate, cbsId, xai, lastResponse,
                   counterVars, now, configCalls, i, incrementalDelay, stimulus, context, language,
                   waitTime, settled, inner, supplied, attempts, sleeps, lastOutcome,
                   banSeen, lastWait>>

\* src/index.js:72-85: how the cookie GET ended
GetOutcome(res) ==
    IF res.ok THEN "cookies"
    ELSE IF res.hasResponse /\ res.status = 403 THEN "cookieBanned"
    ELSE "cookieFailed"

\* src/index.js:77-85: what updateCookiesIfNeeded throws
CookieError(res) == NewError

\* a slip in GetResponse: the refresh stamp is set on a failed GET too
GetResponseStampsFailure(c, res) ==
    /\ pc[c] = "get"
    /\ lastOutcome' = Upd(lastOutcome, c, Outcome(GetOutcome(res), attempts[c], <<>>))
    /\ banSeen' = Upd(banSeen, c, banSeen[c] \/ GetOutcome(res) = "cookieBanned")
    /\ lastCookieUpdate' = now
    /\ IF res.ok
          THEN /\ successfulRequestsCount' = successfulRequestsCount + 1
               /\ cookies' = res.setCookie
               /\ pc' = Upd(pc, c, "awaitCookies")
               /\ UNCHANGED <<failedRequestsCount, inner>>
          ELSE /\ failedRequestsCount' = failedRequestsCount + 1
               /\ inner' = Upd(inner, c, Thrown(CookieError(res)))
               /\ pc' = Upd(pc, c, "cookiesRejected")
               /\ UNCHANGED <<successfulRequestsCount, cookies>>
    /\ request' = Upd(request, c, NoRequest)
    /\ UNCHANGED <<configVars, cbsId, xai, ns, lastResponse, now, configCalls, arrays, i, incrementalDelay,
                   stimulus, context, language, waitTime, settled, supplied, attempts, sleeps,
                   lastWait, builds, reversals>>

\* src/index.js:72-85: the cookie GET of call c is answered and
\* updateCookiesIfNeeded runs to its end: it returns, or counts the failure
\* and throws
GetResponse(c, res) ==
    /\ pc[c] = "get"
    /\ lastOutcome' = Upd(lastOutcome, c, Outcome(GetOutcome(res), attempts[c], <<>>))
    /\ banSeen' = Upd(banSeen, c, banSeen[c] \/ GetOutcome(res) = "cookieBanned")
    /\ IF res.ok
          THEN /\ successfulRequestsCount' = successfulRequestsCount + 1
               /\ cookies' = res.setCookie
               /\ lastCookieUpdate' = now
               /\ pc' = Upd(pc, c, "awaitCookies")
               /\ UNCHANGED <<failedRequestsCount, inner>>
          ELSE /\ failedRequestsCount' = failedRequestsCount + 1
               /\ inner' = Upd(inner, c, Thrown(CookieError(res)))
               /\ pc' = Upd(pc, c, "cookiesRejected")
               /\ UNCHANGED <<successfulRequestsCount, cookies, lastCookieUpdate>>
    /\ request' = Upd(request, c, NoRequest)
    /\ UNCHANGED <<configVars, cbsId, xai, ns, lastResponse, now, configCalls, arrays, i, incrementalDelay,
                   stimulus, context, language, waitTime, settled, supplied, attempts, sleeps,
                   lastWait, builds, reversals>>

\* src/index.js:92: callCleverbotAPI resumes at its await of the rejected
\* promise of updateCookiesIfNeeded; the error leaves callCleverbotAPI, the
\* await being outside its try block
CookiesRejected(c) ==
    /\ pc[c] = "cookiesRejected"
    /\ pc' = Upd(pc, c, "apiRejected")
    /\ UNCHANGED <<configVars, sessionVars, counterVars, now, configCalls, arrays, i, incrementalDelay,
                   stimulus, context, language, waitTime, settled, request, inner, obsVars>>

\* src/index.js:112-115: !data
DataEmpty(res) == IF res.isString THEN res.segs = EmptyBody ELSE ~res.truthy

\* src/index.js:120: data.split('\r'), a TypeError when data is no string
SplitThrows(res) == ~res.isString

\* src/index.js:103-133: how the exchange attempt ends
PostOutcome(res) ==
    IF ~res.ok THEN (IF res.hasResponse /\ res.status = 403 THEN "banned" ELSE "failed")
    ELSE IF DataEmpty(res) THEN "empty"
    ELSE IF SplitThrows(res) THEN "notText"
    ELSE IF Len(res.segs) >= 3 THEN "reply"
    ELSE "malformed"

\* src/index.js:129-133: what the catch clause of callCleverbotAPI throws
ExchangeError(res) == NewError

\* a slip in ReplyOf: responseLines[1] returned for responseLines[0]
ReplyOfSessionId(segs) == segs[2]

\* src/index.js:125: the value callCleverbotAPI returns for a well-formed body
ReplyOf(segs) == segs[1]

\* a slip in StoreSession: the reply is not kept
StoreSessionWithoutReply(segs) ==
    /\ cbsId' = Some(segs[2])
    /\ xai' = Some(Substring0(segs[2], 3) \o <<",">> \o segs[3])
    /\ UNCHANGED lastResponse

\* a slip in StoreSession: the answer to a request issued before a reset is
\* dropped
StoreSessionUnlessReset(segs) ==
    IF ns = 0
        THEN UNCHANGED <<cbsId, xai, lastResponse>>
        ELSE /\ cbsId' = Some(segs[2])
             /\ xai' = Some(Substring0(segs[2], 3) \o <<",">> \o segs[3])
             /\ lastResponse' = Some(segs[1])

\* src/index.js:122-124: the session fields taken from a well-formed body
StoreSession(segs) ==
    /\ cbsId' = Some(segs[2])
    /\ xai' = Some(Substring0(segs[2], 3) \o <<",">> \o segs[3])
    /\ lastResponse' = Some(segs[1])

\* src/index.js:103-133: the exchange POST of call c is answered and
\* callCleverbotAPI runs to its end: it returns the reply, returns undefined
\* (a body of fewer than 3 segments), or counts the failure and throws
PostResponse(c, res) ==
    /\ pc[c] = "post"
    /\ lastOutcome' = Upd(lastOutcome, c, Outcome(PostOutcome(res), attempts[c], res.segs))
    /\ banSeen' = Upd(banSeen, c, banSeen[c] \/ PostOutcome(res) = "banned")
    /\ successfulRequestsCount' =
          IF res.ok /\ ~DataEmpty(res)
              THEN successfulRequestsCount + 1 ELSE successfulRequestsCount
    /\ IF ~res.ok \/ DataEmpty(res) \/ SplitThrows(res)
          THEN /\ failedRequestsCount' = failedRequestsCount + 1
               /\ inner' = Upd(inner, c, Thrown(ExchangeError(res)))
               /\ pc' = Upd(pc, c, "apiRejected")
               /\ UNCHANGED <<cbsId, xai, lastResponse>>
          ELSE /\ UNCHANGED failedRequestsCount
               /\ pc' = Upd(pc, c, "apiResolved")
               /\ IF Len(res.segs) >= 3
                     THEN /\ StoreSession(res.segs)
                          /\ inner' = Upd(inner, c, Returned(Some(ReplyOf(res.segs))))
                     ELSE /\ UNCHANGED <<cbsId, xai, lastResponse>>
                          /\ inner' = Upd(inner, c, Returned(None))
    /\ request' = Upd(request, c, NoRequest)
    /\ UNCHANGED <<configVars, cookies, lastCookieUpdate, ns, now, configCalls, arrays, i, incrementalDelay,
                   stimulus, context, language, waitTime, settled, supplied, attempts, sleeps,
                   lastWait, builds, reversals>>

\* src/index.js:142: interact resumes at its await of the resolved promise
\* of callCleverbotAPI and returns the value
InteractReturns(c) ==
    /\ pc[c] = "apiResolved"
    /\ settled' = Upd(settled, c, Resolved(inner[c].value))
    /\ pc' = Upd(pc, c, "done")
    /\ i' = Upd(i, c, 0)
    /\ incrementalDelay' = Upd(incrementalDelay, c, 0)
    /\ stimulus' = Upd(stimulus, c, <<>>)
    /\ language' = Upd(language, c, <<>>)
    /\ inner' = Upd(inner, c, NotSettled)
    /\ lastWait' = Upd(lastWait, c, NoWait)
    /\ UNCHANGED <<configVars, sessionVars, counterVars, now, configCalls, arrays, context, waitTime,
                   request, supplied, attempts, sleeps, lastOutcome, banSeen, builds,
                   reversals>>

\* src/index.js:142-149: interact resumes at its await of the rejected
\* promise of callCleverbotAPI and runs its catch clause
InteractCatches(c, jitter) ==
    /\ pc[c] = "apiRejected"
    /\ InteractCatch(c, inner[c].error, jitter)
    /\ UNCHANGED <<configVars, sessionVars, counterVars, now, configCalls, arrays, i, incrementalDelay,
                   stimulus, context, language, request, inner, supplied, attempts,
                   lastOutcome, banSeen, builds, reversals>>

\* a slip in SleepDone: incrementalDelay grows by the random part only
SleepDoneWithoutFloor(c, inc) ==
    /\ pc[c] = "sleep"
    /\ IF LoopContinues(i[c] + 1)
          THEN /\ incrementalDelay' = Upd(incrementalDelay, c, incrementalDelay[c] + inc)
               /\ i' = Upd(i, c, i[c] + 1)
               /\ UNCHANGED <<stimulus, language, lastWait>>
          ELSE /\ incrementalDelay' = Upd(incrementalDelay, c, 0)
               /\ i' = Upd(i, c, 0)
               /\ stimulus' = Upd(stimulus, c, <<>>)
               /\ language' = Upd(language, c, <<>>)
               /\ lastWait' = Upd(lastWait, c, NoWait)
    /\ waitTime' = Upd(waitTime, c, Num(0))
    /\ inner' = Upd(inner, c, NotSettled)
    /\ lastOutcome' = Upd(lastOutcome, c, NoOutcome)
    /\ Iterate(c, i[c] + 1, attempts[c])
    /\ UNCHANGED <<configVars, sessionVars, counterVars, now, configCalls, arrays, context, supplied,
                   sleeps, banSeen, builds, reversals>>

\* src/index.js:149-151, 140: sleep(waitTime) is over; incrementalDelay
\* grows, i++ and the loop test runs
SleepDone(c, inc) ==
    /\ pc[c] = "sleep"
    /\ IF LoopContinues(i[c] + 1)
          THEN /\ incrementalDelay' = Upd(incrementalDelay, c, incrementalDelay[c] + inc + 1000)
               /\ i' = Upd(i, c, i[c] + 1)
               /\ UNCHANGED <<stimulus, language, lastWait>>
          ELSE /\ incrementalDelay' = Upd(incrementalDelay, c, 0)
               /\ i' = Upd(i, c, 0)
               /\ stimulus' = Upd(stimulus, c, <<>>)
               /\ language' = Upd(language, c, <<>>)
               /\ lastWait' = Upd(lastWait, c, NoWait)
    /\ waitTime' = Upd(waitTime, c, Num(0))
    /\ inner' = Upd(inner, c, NotSettled)
    /\ lastOutcome' = Upd(lastOutcome, c, NoOutcome)
    /\ Iterate(c, i[c] + 1, attempts[c])
    /\ UNCHANGED <<configVars, sessionVars, counterVars, now, configCalls, arrays, context, supplied,
                   sleeps, banSeen, builds, reversals>>

-----------------------------------------------------------------------------
(* config, src/index.js:159-199: the keys are validated and assigned one   *)
(* after the other; the first invalid one throws                           *)

DebugOk(c) == c.debug.type \in {"absent", "boolean"}
DefaultLanguageOk(c) ==
    \/ c.defaultLanguage.type = "absent"
    \/ c.defaultLanguage.type = "string" /\ c.defaultLanguage.t \in SUPPORTED_LANGUAGES
\* src/index.js:180, 187, 194: typeof v !== 'number' || v <= 0 rejects
PositiveNumber(v) == v.type = "number" /\ ~NumLessEq(v.num, Num(0))
MaxRetryAttemptsOk(c) == c.maxRetryAttempts.type = "absent" \/ PositiveNumber(c.maxRetryAttempts)
RetryBaseCooldownOk(c) == c.retryBaseCooldown.type = "absent" \/ PositiveNumber(c.retryBaseCooldown)
CookieExpirationTimeOk(c) ==
    c.cookieExpirationTime.type = "absent" \/ PositiveNumber(c.cookieExpirationTime)

\* the call returns normally
ConfigAccepted(c) ==
    /\ c.isObject
    /\ DebugOk(c) /\ DefaultLanguageOk(c) /\ MaxRetryAttemptsOk(c)
    /\ RetryBaseCooldownOk(c) /\ CookieExpirationTimeOk(c)

Config(c) ==
    /\ configCalls < MaxConfigs
    /\ debug' =
          IF c.isObject /\ c.debug.type = "boolean" THEN c.debug.b ELSE debug
    /\ selectedLanguage' =
          IF c.isObject /\ DebugOk(c) /\ c.defaultLanguage.type # "absent"
             /\ DefaultLanguageOk(c)
              THEN c.defaultLanguage.t ELSE selectedLanguage
    /\ maxRetryAttempts' =
          IF c.isObject /\ DebugOk(c) /\ DefaultLanguageOk(c)
             /\ c.maxRetryAttempts.type # "absent" /\ MaxRetryAttemptsOk(c)
              THEN c.maxRetryAttempts.num ELSE maxRetryAttempts
    /\ retryBaseCooldown' =
          IF c.isObject /\ DebugOk(c) /\ DefaultLanguageOk(c) /\ MaxRetryAttemptsOk(c)
             /\ c.retryBaseCooldown.type # "absent" /\ RetryBaseCooldownOk(c)
              THEN c.retryBaseCooldown.num ELSE retryBaseCooldown
    /\ cookieExpirationTime' =
          IF c.isObject /\ DebugOk(c) /\ DefaultLanguageOk(c) /\ MaxRetryAttemptsOk(c)
             /\ RetryBaseCooldownOk(c)
             /\ c.cookieExpirationTime.type # "absent" /\ CookieExpirationTimeOk(c)
              THEN c.cookieExpirationTime.num ELSE cookieExpirationTime
    /\ configCalls' = configCalls + 1
    /\ UNCHANGED <<sessionVars, counterVars, now, arrays, frameVars, obsVars>>

\* a slip in NewSession: the exchange counter is not reset
NewSessionKeepsNs ==
    /\ cookies' = None
    /\ lastCookieUpdate' = 0
    /\ cbsId' = None
    /\ xai' = None
    /\ lastResponse' = None
    /\ UNCHANGED <<ns, configVars, counterVars, now, configCalls, arrays, frameVars, obsVars>>

\* src/index.js:201-210
NewSession ==
    /\ cookies' = None
    /\ lastCookieUpdate' = 0
    /\ cbsId' = None
    /\ xai' = None
    /\ ns' = 0
    /\ lastResponse' = None
    /\ UNCHANGED <<configVars, counterVars, now, configCalls, arrays, frameVars, obsVars>>

\* time passes
Tick ==
    /\ now < MaxNow
    /\ now' = now + 1
    /\ UNCHANGED <<configVars, sessionVars, counterVars, arrays, frameVars, obsVars, configCalls>>

\* the operations of the module and the steps of the calls
Next ==
    \/ \E c \in ConfigArgs : Config(c)
    \/ NewSession
    \/ Tick
    \/ \E c \in Calls, stim \in Stimuli, arr \in ArrayArgs, lang \in LanguageArgs :
          Interact(c, stim, arr, lang)
    \/ \E c \in Calls : CookiesReady(c)
    \/ \E c \in Calls, res \in GetResults : GetResponse(c, res)
    \/ \E c \in Calls : CookiesRejected(c)
    \/ \E c \in Calls, res \in PostResults : PostResponse(c, res)
    \/ \E c \in Calls : InteractReturns(c)
    \/ \E c \in Calls, jitter \in JitterSamples : InteractCatches(c, jitter)
    \/ \E c \in Calls, inc \in IncrementSamples : SleepDone(c, inc)

Spec == Init /\ [][Next]_vars

-----------------------------------------------------------------------------
(* Properties *)

Rejected(c, kind) == pc[c] = "done" /\ settled[c].how = "rejected" /\ settled[c].error = kind

\* interact is not waiting to resume after an error of its attempt
Resumed(c) == pc[c] \notin {"cookiesRejected", "apiRejected"}

\* the value of the field called name in a "k=v" list
FieldValue(fields, name) == (CHOOSE f \in {fields[k] : k \in DOMAIN fields} : f.name = name).value

PositiveInteger(x) == IsInteger(x) /\ NumLess(Num(0), x)

\* C1: an exchange POST answered 403 ends interact at that attempt: once
\* interact has resumed it has rejected with Banned naming the attempt,
\* without a sleep and without a further attempt.
C1_Post403Aborts ==
    \A c \in Calls :
        (lastOutcome[c].kind = "banned" /\ Resumed(c)) =>
            /\ Rejected(c, "Banned")
            /\ settled[c].attempt = lastOutcome[c].attempt
            /\ attempts[c] = lastOutcome[c].attempt
            /\ sleeps[c] = lastOutcome[c].attempt - 1

\* C2: a cookie GET answered 403 ends interact with Banned: once interact
\* has resumed it has rejected, and no sleep and no further attempt follows.
C2_Cookie403Aborts ==
    \A c \in Calls :
        (lastOutcome[c].kind = "cookieBanned" /\ Resumed(c)) =>
            /\ Rejected(c, "Banned")
            /\ attempts[c] = lastOutcome[c].attempt
            /\ sleeps[c] = lastOutcome[c].attempt - 1

\* C3: when interact gives up and no attempt was answered 403, it has made
\* exactly maxRetryAttempts attempts, the number its ExhaustedRetries error
\* names.
C3_ExactlyMaxAttempts ==
    \A c \in Calls :
        (Rejected(c, "ExhaustedRetries") /\ ~banSeen[c]) => Num(attempts[c]) = settled[c].named

\* C4: a body of fewer than 3 segments leaves sessionId, exchangeAuthToken
\* and lastReply as they were and makes the attempt a failed one: the
\* remote call rejects, and interact does not resolve with its result.
C4_MalformedIsFailure ==
    [][\A c \in Calls :
          (pc[c] = "post" /\ lastOutcome'[c].kind = "malformed") =>
              /\ UNCHANGED <<cbsId, xai, lastResponse>>
              /\ pc'[c] = "apiRejected"
              /\ inner'[c].how = "rejected"]_vars

\* C5: a config call that throws changes no configuration value.
C5_ConfigAtomic ==
    [][\A c \in ConfigArgs : (Config(c) /\ ~ConfigAccepted(c)) => UNCHANGED configVars]_vars

\* C6: the payload of every exchange POST, first attempt or retry, carries
\* in vText<k> the element at position length-1-k of the history as the
\* caller supplied it.
C6_MostRecentFirst ==
    \A c \in Calls :
        request[c].method = "POST" =>
            \A k \in 0..(Len(supplied[c]) - 1) :
                FieldValue(request[c].body, "vText" \o ToString(k))
                    = encodeURIComponent(supplied[c][Len(supplied[c]) - k])

\* a step that takes session state back: the exchange counter or the refresh
\* stamp decreases, or a session id, token or reply that was set is unset
SessionTakenBack ==
    \/ ns' < ns
    \/ lastCookieUpdate' < lastCookieUpdate
    \/ cbsId # None /\ cbsId' = None
    \/ xai # None /\ xai' = None
    \/ lastResponse # None /\ lastResponse' = None

\* C7: newSession sets the six session fields to their initial values and
\* changes no configuration value and neither counter; every step that
\* takes session state back is such a reset.
C7_NewSessionFrame ==
    [][(NewSession \/ SessionTakenBack) =>
          /\ cookies' = None /\ lastCookieUpdate' = 0 /\ cbsId' = None
          /\ xai' = None /\ ns' = 0 /\ lastResponse' = None
          /\ UNCHANGED <<configVars, counterVars>>]_vars

\* C7 witness: a call has resolved with a reply, both counters have moved,
\* the configuration has been changed, and the session is back to its
\* initial values
C7_Witness ==
    /\ \E c \in Calls : pc[c] = "done" /\ settled[c].how = "resolved" /\ settled[c].value # None
    /\ successfulRequestsCount > 0 /\ failedRequestsCount > 0
    /\ retryBaseCooldown = Num(1000)
    /\ cookies = None /\ lastCookieUpdate = 0 /\ cbsId = None /\ xai = None
    /\ ns = 0 /\ lastResponse = None

\* C8: once an attempt is answered with a well-formed body, the remote call
\* has returned segment 0 of that body and interact resolves with it at its
\* next step; nothing else follows: no request is in flight, no attempt was
\* made after that one and no sleep after it.
C8_SuccessReturnsAtOnce ==
    \A c \in Calls :
        lastOutcome[c].kind = "reply" =>
            /\ pc[c] \in {"apiResolved", "done"}
            /\ pc[c] = "apiResolved" =>
                  inner[c].how = "resolved" /\ inner[c].value = Some(lastOutcome[c].data[1])
            /\ pc[c] = "done" => settled[c] = Resolved(Some(lastOutcome[c].data[1]))
            /\ request[c] = NoRequest
            /\ attempts[c] = lastOutcome[c].attempt
            /\ sleeps[c] = lastOutcome[c].attempt - 1

\* C8 witness: the second attempt of a call was the one answered
C8_Witness ==
    \E c \in Calls :
        lastOutcome[c].kind = "reply" /\ lastOutcome[c].attempt = 2 /\ pc[c] = "done"

\* C9: the configuration always satisfies its domain constraints.
C9_ConfigDomain ==
    /\ PositiveInteger(maxRetryAttempts)
    /\ PositiveInteger(retryBaseCooldown)
    /\ PositiveInteger(cookieExpirationTime)
    /\ selectedLanguage \in SUPPORTED_LANGUAGES
    /\ debug \in BOOLEAN

\* C10: the step that completes a network call adds one to exactly one of
\* the two counters, and no step decreases a counter.
C10_OneCounterPerCall ==
    [][/\ \A c \in Calls :
             (request[c].method # "none" /\ request'[c].method = "none") =>
                 \/ /\ successfulRequestsCount' = successfulRequestsCount + 1
                    /\ failedRequestsCount' = failedRequestsCount
                 \/ /\ successfulRequestsCount' = successfulRequestsCount
                    /\ failedRequestsCount' = failedRequestsCount + 1
       /\ successfulRequestsCount' >= successfulRequestsCount
       /\ failedRequestsCount' >= failedRequestsCount]_vars

\* the current attempt of call c ended with an error that is no 403: the
\* cookie GET failed, the exchange POST failed, or its body was empty or no
\* text
AttemptFailed(c) == lastOutcome[c].kind \in {"cookieFailed", "failed", "empty", "notText"}

\* C11: interact rejects only with Banned or ExhaustedRetries; an attempt
\* that raised CookieFetchFailed or RemoteCallFailed is on its way to the
\* catch clause of the retry loop or has been caught by it (interact is in
\* its backoff sleep), and interact is still pending.
C11_OnlyTerminalErrors ==
    \A c \in Calls :
        /\ settled[c].how = "rejected" =>
              pc[c] = "done" /\ settled[c].error \in {"Banned", "ExhaustedRetries"}
        /\ AttemptFailed(c) =>
              /\ pc[c] \in {"cookiesRejected", "apiRejected", "sleep"}
              /\ settled[c].how = "pending"

\* C11 witness: the second attempt of a call failed in its cookie GET after
\* a first attempt that failed too, and the retry loop has caught both
C11_Witness ==
    \E c \in Calls :
        /\ lastOutcome[c].kind = "cookieFailed" /\ lastOutcome[c].attempt = 2
        /\ sleeps[c] = 2 /\ pc[c] = "sleep"

\* C12: sessionId, exchangeAuthToken and lastReply are all unset or all
\* set in every state; a step that changes one of them either stores all
\* three from one answer of at least 3 segments or is newSession clearing
\* all three.
C12_SessionTriple ==
    /\ []((cbsId = None) = (xai = None) /\ (xai = None) = (lastResponse = None))
    /\ [][<<cbsId, xai, lastResponse>>' # <<cbsId, xai, lastResponse>> =>
             \/ \E c \in Calls :
                   /\ pc[c] = "post"
                   /\ lastOutcome'[c].kind = "reply"
                   /\ Len(lastOutcome'[c].data) >= 3
                   /\ cbsId' = Some(lastOutcome'[c].data[2])
                   /\ xai' = Some(Substring0(lastOutcome'[c].data[2], 3) \o <<",">>
                                  \o lastOutcome'[c].data[3])
                   /\ lastResponse' = Some(lastOutcome'[c].data[1])
             \/ /\ NewSession
                /\ cbsId' = None /\ xai' = None /\ lastResponse' = None]_vars

\* C12 witness: a later exchange POST is in flight with all three set
C12_Witness ==
    /\ cbsId # None /\ xai # None /\ lastResponse # None /\ ns = 2
    /\ \E c \in Calls : pc[c] = "post"

\* call c issues its exchange POST in this step
PostIssued(c) == request'[c].method = "POST" /\ request[c].method # "POST"

\* C13: exchangeCount starts at 0; the step that issues the exchange POST
\* of an attempt adds exactly 1 to it, the answer to the POST, whatever it
\* is, and a failed cookie GET leave it as it is, and every other change
\* is newSession setting it to 0.
C13_ExchangeCount ==
    /\ ns = 0
    /\ [][/\ \A c \in Calls : PostIssued(c) => pc[c] = "awaitCookies" /\ ns' = ns + 1
          /\ ns' # ns =>
                \/ \E c \in Calls : PostIssued(c) /\ ns' = ns + 1
                \/ NewSession /\ ns' = 0
          /\ \A c \in Calls : (pc[c] = "post" /\ pc'[c] # "post") => ns' = ns
          /\ \A c \in Calls : (pc[c] = "get" /\ pc'[c] # "get") => ns' = ns]_vars

\* C13 witness: two exchange POSTs of one call failed, the second with an
\* empty body, and each has counted
C13_Witness ==
    \E c \in Calls :
        pc[c] = "sleep" /\ lastOutcome[c].kind = "empty" /\ attempts[c] = 2 /\ ns = 2

\* a step that starts an attempt of call c, and the validity window as the
\* specification words it
AttemptStarts(c) == pc[c] \in {"idle", "sleep"} /\ pc'[c] \in {"awaitCookies", "get"}
JarUsable ==
    /\ cookies # None
    /\ ~IsNaN(cookieExpirationTime)
    /\ (now - lastCookieUpdate) * cookieExpirationTime.d < cookieExpirationTime.n

\* C14: an attempt starts without a cookie GET exactly when a jar exists
\* and now - lastCookieRefresh < cookieExpirationTime; otherwise it issues
\* the cookie GET, the only one of the attempt and before its exchange
\* POST; a successful GET replaces the jar by the answer's set-cookie
\* values and sets lastCookieRefresh to the current time.
C14_CookieRefresh ==
    [][\A c \in Calls :
          /\ AttemptStarts(c) =>
                /\ JarUsable => pc'[c] = "awaitCookies" /\ request'[c].method = "none"
                /\ ~JarUsable => pc'[c] = "get" /\ request'[c] = CookieRequest
          /\ (request'[c].method = "GET" /\ request[c].method # "GET") => AttemptStarts(c)
          /\ PostIssued(c) => pc[c] = "awaitCookies"
          /\ pc[c] = "get" => pc'[c] \in {"get", "awaitCookies", "cookiesRejected"}
          /\ (pc[c] = "get" /\ pc'[c] = "awaitCookies") =>
                /\ \E res \in GetResults : res.ok /\ cookies' = res.setCookie
                /\ lastCookieUpdate' = now]_vars

\* C14 witness: an attempt has issued the cookie GET although a jar exists,
\* the jar being exactly cookieExpirationTime old
C14_Witness ==
    /\ cookies # None /\ Num(now - lastCookieUpdate) = cookieExpirationTime
    /\ \E c \in Calls : pc[c] = "get" /\ request[c] = CookieRequest

\* C15: an exchange POST carries the continuation parameters exactly when
\* sessionId is set as the request is built; the session id, token and
\* previous reply it carries are the stored ones and the counter is the
\* exchangeCount just incremented.
C15_ContinuationParams ==
    [][\A c \in Calls :
          PostIssued(c) =>
              /\ (request'[c].url # <<>>) = (cbsId # None)
              /\ request'[c].url # <<>> =>
                    /\ FieldValue(request'[c].url, "cbsid") = cbsId[1]
                    /\ FieldValue(request'[c].url, "xai") = xai[1]
                    /\ FieldValue(request'[c].url, "out") = encodeURIComponent(lastResponse[1])
                    /\ FieldValue(request'[c].url, "ns") = NumberToText(ns')
                    /\ ns' = ns + 1]_vars

\* call c computes a wait in this step
WaitComputed(c) == sleeps'[c] = sleeps[c] + 1
\* the wait without its random part
JitterFree(cooldown, delay) == NumPlus(cooldown, 1000 + delay)
\* every wait of call c is retryBaseCooldown + random(0..1999) + 1000 +
\* incrementalDelay, with incrementalDelay 0 at the first wait and 1000 to
\* 3999 more at each later one
WaitFormula(c) ==
    /\ WaitComputed(c) =>
          /\ NumLessEq(JitterFree(retryBaseCooldown, incrementalDelay[c]), waitTime'[c])
          /\ NumLessEq(waitTime'[c],
                       NumPlus(JitterFree(retryBaseCooldown, incrementalDelay[c]), 1999))
          /\ IsInteger(waitTime'[c]) = IsInteger(retryBaseCooldown)
          /\ sleeps[c] = 0 => incrementalDelay[c] = 0
          /\ sleeps[c] > 0 => incrementalDelay[c] - lastWait[c].delay \in 1000..3999
    /\ (pc[c] = "sleep" /\ pc'[c] \notin {"sleep", "done"}) =>
          incrementalDelay'[c] - incrementalDelay[c] \in 1000..3999

\* C16 as stated: every wait follows the formula, and the jitter-free part
\* of each wait after the first of a call is greater than that of the wait
\* before it.
C16_BackoffGrows ==
    [][\A c \in Calls :
          /\ WaitFormula(c)
          /\ (WaitComputed(c) /\ sleeps[c] > 0) =>
                NumLess(JitterFree(lastWait[c].cooldown, lastWait[c].delay),
                        JitterFree(retryBaseCooldown, incrementalDelay[c]))]_vars

\* C16 amended: every wait follows the formula, and the jitter-free part of
\* each wait after the first of a call is greater than that of the wait
\* before it unless retryBaseCooldown was lowered in between.
C16_BackoffGrowsUnlessLowered ==
    [][\A c \in Calls :
          /\ WaitFormula(c)
          /\ (/\ WaitComputed(c) /\ sleeps[c] > 0
              /\ NumLessEq(lastWait[c].cooldown, retryBaseCooldown)) =>
                NumLess(JitterFree(lastWait[c].cooldown, lastWait[c].delay),
                        JitterFree(retryBaseCooldown, incrementalDelay[c]))]_vars

\* C16 witness: the third wait of a call, retryBaseCooldown never changed,
\* incrementalDelay grown by the least amount twice, the largest jitter
C16_Witness ==
    \E c \in Calls :
        /\ pc[c] = "sleep" /\ sleeps[c] = 3 /\ incrementalDelay[c] = 2000
        /\ lastWait[c] = [cooldown |-> Num(3000), delay |-> 2000]
        /\ waitTime[c] = Num(3000 + 1999 + 1000 + 2000)

\* the exchange POST of call c fails in this step, and its cookie GET does
ExchangeFails(c) == pc[c] = "post" /\ lastOutcome'[c].kind \in {"empty", "failed"}
CookieGetFails(c) == pc[c] = "get" /\ lastOutcome'[c].kind = "cookieFailed"

\* what the steps of a failing attempt change: issuing the POST adds 1 to
\* exchangeCount, a failing answer adds 1 to failureCount, and neither
\* changes anything else of the module's state
FailedAttemptFrame(c) ==
    /\ PostIssued(c) =>
          /\ ns' = ns + 1
          /\ UNCHANGED <<cookies, lastCookieUpdate, cbsId, xai, lastResponse, counterVars,
                         configVars>>
    /\ ExchangeFails(c) =>
          /\ failedRequestsCount' = failedRequestsCount + 1
          /\ UNCHANGED <<cookies, lastCookieUpdate, cbsId, xai, lastResponse, ns,
                         successfulRequestsCount, configVars>>
    /\ CookieGetFails(c) =>
          /\ failedRequestsCount' = failedRequestsCount + 1
          /\ UNCHANGED <<cookies, lastCookieUpdate, cbsId, xai, lastResponse, ns,
                         successfulRequestsCount, configVars>>

\* C17 as stated: an attempt whose exchange fails has changed exchangeCount
\* and failureCount only: no step of it, a cookie refresh included, has
\* changed the jar or the refresh stamp.
C17_FailedAttemptChangesNothingElse ==
    [][\A c \in Calls :
          /\ FailedAttemptFrame(c)
          /\ ExchangeFails(c) => lastOutcome[c].kind # "cookies"]_vars

\* C17 amended: apart from the cookie refresh an attempt may make before
\* its exchange (which replaces the jar, sets the refresh stamp and adds 1
\* to successCount), the steps of an attempt whose exchange fails change
\* exchangeCount (+1) and failureCount (+1) only, and a failed cookie GET
\* changes failureCount (+1) only.
C17_FailedAttemptFrame ==
    [][\A c \in Calls :
          /\ FailedAttemptFrame(c)
          /\ (pc[c] = "get" /\ pc'[c] = "awaitCookies") =>
                /\ successfulRequestsCount' = successfulRequestsCount + 1
                /\ lastCookieUpdate' = now
                /\ UNCHANGED <<cbsId, xai, lastResponse, ns, failedRequestsCount,
                               configVars>>]_vars

\* C17 witness: with a session and a jar stored, the exchange of a later
\* attempt came back empty
C17_Witness ==
    /\ cookies # None /\ cbsId # None /\ xai # None /\ lastResponse # None
    /\ ns = 2 /\ failedRequestsCount = 1 /\ successfulRequestsCount = 2
    /\ \E c \in Calls : pc[c] = "sleep" /\ lastOutcome[c].kind = "empty"

\* C18: the k-th attempt of a call, when it fails without a 403, is followed
\* by the k-th sleep of the call as soon as interact resumes, the last
\* attempt too: interact rejects with ExhaustedRetries only out of a sleep,
\* having slept as often as it attempted.
C18_SleepAfterEveryFailure ==
    /\ [](\A c \in Calls :
             /\ AttemptFailed(c) =>
                   \/ pc[c] = "sleep" /\ sleeps[c] = lastOutcome[c].attempt
                   \/ /\ pc[c] \in {"cookiesRejected", "apiRejected"}
                      /\ sleeps[c] = lastOutcome[c].attempt - 1
             /\ Rejected(c, "ExhaustedRetries") => sleeps[c] = attempts[c])
    /\ [][\A c \in Calls :
             (/\ settled[c].how = "pending"
              /\ settled'[c].error = "ExhaustedRetries"
              /\ attempts'[c] > 0) =>
                 pc[c] = "sleep" /\ sleeps[c] = attempts[c] /\ attempts'[c] = attempts[c]]_vars

\* C18 witness: a call has given up after maxRetryAttempts = 3 attempts and
\* 3 sleeps, none of its attempts answered 403
C18_Witness ==
    \E c \in Calls :
        /\ Rejected(c, "ExhaustedRetries") /\ settled[c].named = Num(3)
        /\ maxRetryAttempts = Num(3)
        /\ attempts[c] = 3 /\ sleeps[c] = 3 /\ ~banSeen[c]

\* the array call c was passed is as it was when the call was made, and is
\* that in reverse
InOriginalOrder(c) == arrays[context[c]] = supplied[c]
InReversedOrder(c) ==
    /\ Len(arrays[context[c]]) = Len(supplied[c])
    /\ \A k \in 1..Len(supplied[c]) :
          arrays[context[c]][k] = supplied[c][Len(supplied[c]) + 1 - k]
\* the array reads differently in the two orders
Directed(c) ==
    \E k \in 1..Len(supplied[c]) : supplied[c][k] # supplied[c][Len(supplied[c]) + 1 - k]
\* call c is made in this step
CallStarts(c) == pc[c] = "idle" /\ pc'[c] # "idle"

\* every payload build reverses an array, and only a build or a new call
\* changes one
ReversedByBuildsOnly ==
    /\ \A c \in Calls : PostIssued(c) => builds'[c] = builds[c] + 1
    /\ \A c \in Calls : builds'[c] # builds[c] => PostIssued(c) \/ CallStarts(c)
    /\ arrays' # arrays => \E c \in Calls : PostIssued(c) \/ CallStarts(c)

\* C19 as stated: every payload build reverses the caller's array in place
\* and nothing restores it: when a call has finished, its array is in its
\* original order exactly when the call has built an even number of
\* payloads, and in reversed order otherwise.
C19_ReversedPerBuild ==
    /\ [](\A c \in Calls :
             pc[c] = "done" =>
                 /\ builds[c] % 2 = 0 => InOriginalOrder(c)
                 /\ builds[c] % 2 = 1 => InReversedOrder(c)
                 /\ Directed(c) => (InOriginalOrder(c) <=> builds[c] % 2 = 0))
    /\ [][ReversedByBuildsOnly]_vars

\* C19 amended: every payload build reverses the caller's array in place
\* and nothing restores it: the array of a call, while the call runs and
\* when it has finished, is in its original order exactly when an even
\* number of payloads has been built on it since the call was made, by this
\* call or by another call that was passed the same array.
C19_ReversedPerBuildOnArray ==
    /\ [](\A c \in Calls :
             pc[c] # "idle" =>
                 /\ reversals[c] % 2 = 0 => InOriginalOrder(c)
                 /\ reversals[c] % 2 = 1 => InReversedOrder(c)
                 /\ Directed(c) => (InOriginalOrder(c) <=> reversals[c] % 2 = 0)
                 /\ reversals[c] >= builds[c])
    /\ [][/\ ReversedByBuildsOnly
          /\ \A c, d \in Calls :
                PostIssued(c) =>
                    reversals'[d] =
                        IF pc[d] # "idle" /\ context[d] = context[c]
                            THEN reversals[d] + 1 ELSE reversals[d]]_vars

\* C19 witness: two calls that were passed the same two-element array have
\* resolved, each at its first attempt, and the array is in its original
\* order
C19_Witness ==
    \E c \in Calls, d \in Calls :
        /\ c # d /\ context[c] = context[d]
        /\ pc[c] = "done" /\ settled[c].how = "resolved"
        /\ pc[d] = "done" /\ settled[d].how = "resolved"
        /\ builds[c] = 1 /\ builds[d] = 1 /\ reversals[c] = 2
        /\ supplied[c] = <<MsgA, MsgB>> /\ arrays[context[c]] = <<MsgA, MsgB>>

\* the exchange POST of call c is in flight and newSession has run since
\* the last exchange POST was issued
ResetInFlight(c) == pc[c] = "post" /\ ns = 0

\* C20: the answer to an exchange POST that was in flight when newSession
\* ran still stores its session id, token and reply, and leaves
\* exchangeCount at 0.
C20_AnswerAfterReset ==
    [][\A c \in Calls :
          (ResetInFlight(c) /\ lastOutcome'[c].kind = "reply") =>
              /\ cbsId' = Some(lastOutcome'[c].data[2])
              /\ xai' = Some(Substring0(lastOutcome'[c].data[2], 3) \o <<",">>
                             \o lastOutcome'[c].data[3])
              /\ lastResponse' = Some(lastOutcome'[c].data[1])
              /\ ns' = 0
              /\ UNCHANGED <<cookies, lastCookieUpdate>>
              /\ pc'[c] = "apiResolved"]_vars

\* C20 witness: the call has resolved and the session holds an id, a token
\* and a reply, with exchangeCount 0 and no jar
C20_Witness ==
    /\ ns = 0 /\ cookies = None /\ lastCookieUpdate = 0
    /\ cbsId = Some(Sid1) /\ xai # None /\ lastResponse = Some(Reply1)
    /\ \E c \in Calls :
          pc[c] = "done" /\ settled[c].how = "resolved" /\ lastOutcome[c].kind = "reply"

====
